---- MODULE Spec2Model ----
(***************************************************************************)
(* Stockron Analyzer (ai_analyzer_server.py): the /analyze handler, its    *)
(* file-backed cache, the scoring engine and the zone / sell-signal        *)
(* calculator.                                                             *)
(*                                                                         *)
(* Units.  Floats are modelled by exact integers:                          *)
(*   - prices, highs, lows, closes: cents (1 = 0.01);                      *)
(*   - values produced by round(x, 4): ticks (1 = 0.0001 = cents / 100);   *)
(*   - PE Ratio: units; EPS Growth: hundredths (20 = 0.20);                *)
(*   - Debt/Equity and Beta: tenths (5 = 0.5, 15 = 1.5);                   *)
(*   - sub-scores: units; overall_score: hundredths (7000 = 70.00);        *)
(*   - time: hours since the epoch of the run; a calendar day is 24 hours. *)
(* An optional float is Null or Num(v); a provider value may also be NaN.  *)
(* Text (ticker, style, notes) is a sequence of one-character strings.     *)
(***************************************************************************)
EXTENDS Integers, Sequences, FiniteSets, TLC

VARIABLES
  store,  \* the cache file /tmp/stockron_cache.json
  now,    \* datetime.utcnow(), in hours
  last,   \* the last completed /analyze request and its response
  arg,    \* input of the scoring engine / zone calculator when run on its own
  ret,    \* its output
  th      \* the requests in flight, one per worker thread

vars == <<store, now, last, arg, ret, th>>

(* ------------------------------ values -------------------------------- *)

Null == [t |-> "null"]

NaNv == [t |-> "nan"]

Num(x) == [t |-> "num", v |-> x]

IsNum(x) == x.t = "num"

Max(a, b) == IF a >= b THEN a ELSE b

Min(a, b) == IF a <= b THEN a ELSE b

Abs(a) == IF a < 0 THEN -a ELSE a

\* round-half-even of the rational num/den (den > 0), as Python's round()
RoundHalfEven(num, den) ==
  LET q == num \div den
      r == num % den
  IN  IF 2 * r < den THEN q
      ELSE IF 2 * r > den THEN q + 1
      ELSE IF q % 2 = 0 THEN q ELSE q + 1

\* round(x, 4) of a rational number of cents <<num, den>>, in ticks
Round4(q) == RoundHalfEven(100 * q[1], q[2])

RatSub(a, b) == <<a[1] * b[2] - b[1] * a[2], a[2] * b[2]>>

RatAdd(a, b) == <<a[1] * b[2] + b[1] * a[2], a[2] * b[2]>>

(* ------------------------------- text --------------------------------- *)

LowerOf == [c \in {"A", "B", "F", "R", "E", "Z", "I", "N", "V", "S", "T", "O", "W", "G"} |->
             CASE c = "A" -> "a" [] c = "B" -> "b" [] c = "F" -> "f" [] c = "R" -> "r"
               [] c = "E" -> "e" [] c = "Z" -> "z" [] c = "I" -> "i" [] c = "N" -> "n"
               [] c = "V" -> "v" [] c = "S" -> "s" [] c = "T" -> "t" [] c = "O" -> "o"
               [] c = "W" -> "w" [] c = "G" -> "g"]

UpperOf == [c \in {"a", "b", "f", "r", "e", "z", "i", "n", "v", "s", "t", "o", "w", "g"} |->
             CASE c = "a" -> "A" [] c = "b" -> "B" [] c = "f" -> "F" [] c = "r" -> "R"
               [] c = "e" -> "E" [] c = "z" -> "Z" [] c = "i" -> "I" [] c = "n" -> "N"
               [] c = "v" -> "V" [] c = "s" -> "S" [] c = "t" -> "T" [] c = "o" -> "O"
               [] c = "w" -> "W" [] c = "g" -> "G"]

\* str.lower()
Lower(s) == [i \in 1..Len(s) |-> IF s[i] \in DOMAIN LowerOf THEN LowerOf[s[i]] ELSE s[i]]

\* str.upper()
Upper(s) == [i \in 1..Len(s) |-> IF s[i] \in DOMAIN UpperOf THEN UpperOf[s[i]] ELSE s[i]]

RECURSIVE LStrip(_)
LStrip(s) == IF s # <<>> /\ Head(s) = " " THEN LStrip(Tail(s)) ELSE s

RECURSIVE RStrip(_)
RStrip(s) == IF s # <<>> /\ s[Len(s)] = " " THEN RStrip(SubSeq(s, 1, Len(s) - 1)) ELSE s

\* str.strip()
Strip(s) == RStrip(LStrip(s))

SWING == <<"s", "w", "i", "n", "g">>

INVESTOR == <<"i", "n", "v", "e", "s", "t", "o", "r">>

FREEZE == <<"f", "r", "e", "e", "z", "e">>

(* --------------------------- program constants ------------------------ *)

ANALYSIS_TTL_HOURS == 24

FUND_TTL_HOURS == 24

HoursPerDay == 24

(* --------------------------- math helpers ----------------------------- *)

\* _safe_float(v, fb): None -> fb; finite number -> float(v); NaN/inf -> fb
\* (numeric strings, which the provider does not send for these fields, are left out)
_safe_float(v, fb) == IF IsNum(v) THEN v ELSE fb

\* s[lo] + ... + s[hi]
RECURSIVE SumRange(_, _, _)
SumRange(s, lo, hi) ==
  IF lo > hi THEN 0
  ELSE IF lo = hi THEN s[lo]
  ELSE SumRange(s, lo, (lo + hi) \div 2) + SumRange(s, (lo + hi) \div 2 + 1, hi)

SumLast(s, k) == SumRange(s, Len(s) - k + 1, Len(s))

\* s.rolling(window=w, min_periods=max(2, w // 2)).mean().iloc[-1] for a series
\* without NaN: the mean of the last min(w, len) values, defined only when there
\* are at least min_periods of them.  def = FALSE stands for NaN.
_sma(s, w) ==
  LET cnt == Min(w, Len(s))
  IN  IF cnt >= Max(2, w \div 2)
      THEN [def |-> TRUE, sum |-> SumLast(s, cnt), cnt |-> cnt]
      ELSE [def |-> FALSE, sum |-> 0, cnt |-> 1]

(* A price frame is two runs of equal bars: n1 bars b1, then n2 bars b2     *)
(* (n1 >= 0, n2 >= 1); a bar is [high, low, close] in cents.                *)
Bars(df) == [i \in 1..(df.n1 + df.n2) |-> IF i <= df.n1 THEN df.b1 ELSE df.b2]

Close(df) == [i \in 1..(df.n1 + df.n2) |-> Bars(df)[i].close]

\* tr = max(|h-l|, |h-pc|, |l-pc|) with pc = c.shift(1); on the first bar pc is
\* NaN and DataFrame.max(axis=1) skips it, leaving |h-l|
TrueRange(df) ==
  LET b == Bars(df)
  IN  [i \in 1..Len(b) |->
        IF i = 1 THEN Abs(b[i].high - b[i].low)
        ELSE Max(Abs(b[i].high - b[i].low),
                 Max(Abs(b[i].high - b[i - 1].close), Abs(b[i].low - b[i - 1].close)))]

\* _atr(h, l, c, w).iloc[-1]
_atr(df, w) == _sma(TrueRange(df), w)

(* -------------------------- scoring engine ---------------------------- *)

FundKeys == {"PE Ratio", "Forward PE", "PS Ratio", "PEG Ratio", "Revenue Growth",
             "EPS Growth", "Beta", "Debt/Equity", "Market Cap"}

InfoField == [k \in FundKeys |->
               CASE k = "PE Ratio" -> "trailingPE"
                 [] k = "Forward PE" -> "forwardPE"
                 [] k = "PS Ratio" -> "priceToSalesTrailing12Months"
                 [] k = "PEG Ratio" -> "pegRatio"
                 [] k = "Revenue Growth" -> "revenueGrowth"
                 [] k = "EPS Growth" -> "earningsGrowth"
                 [] k = "Beta" -> "beta"
                 [] k = "Debt/Equity" -> "debtToEquity"
                 [] k = "Market Cap" -> "marketCap"]

AllNull == [k \in FundKeys |-> Null]

\* _fetch_fundamentals(tkr): info is [ok |-> FALSE] when tkr.info raises, else
\* [ok |-> TRUE, bag |-> the provider's fields]; every key is always present
_fetch_fundamentals(info) ==
  IF ~info.ok THEN AllNull
  ELSE [k \in FundKeys |-> _safe_float(info.bag[InfoField[k]], Null)]

\* the sub-scores with the PE bonus mistyped as 32 instead of 12
RawScores_bonus_32(f) ==
  LET pe == f["PE Ratio"]
      growth_eps == f["EPS Growth"]
      debt == f["Debt/Equity"]
      beta == f["Beta"]
      q1 == IF IsNum(pe)
            THEN (IF pe.v < 15 THEN 32 ELSE IF pe.v > 60 THEN -10 ELSE 0)
            ELSE 0
      q2 == IF IsNum(growth_eps)
            THEN (IF growth_eps.v > 20 THEN 15 ELSE IF growth_eps.v < 0 THEN -10 ELSE 0)
            ELSE 0
      l1 == IF IsNum(debt)
            THEN (IF debt.v < 5 THEN 15 ELSE IF debt.v > 20 THEN -10 ELSE 0)
            ELSE 0
      c1 == IF IsNum(growth_eps) /\ growth_eps.v # 0 /\ growth_eps.v > 10 THEN 5 ELSE 0
      c2 == IF IsNum(beta) /\ beta.v # 0 /\ beta.v > 15 THEN -5 ELSE 0
  IN  [quant |-> 50 + q1 + q2, quality |-> 50 + l1, catalyst |-> 50 + c1 + c2]

\* the three sub-scores of _scores_from before the clamp (lines 155-178)
RawScores(f) ==
  LET pe == f["PE Ratio"]
      growth_eps == f["EPS Growth"]
      debt == f["Debt/Equity"]
      beta == f["Beta"]
      q1 == IF IsNum(pe)
            THEN (IF pe.v < 15 THEN 12 ELSE IF pe.v > 60 THEN -10 ELSE 0)
            ELSE 0
      q2 == IF IsNum(growth_eps)
            THEN (IF growth_eps.v > 20 THEN 15 ELSE IF growth_eps.v < 0 THEN -10 ELSE 0)
            ELSE 0
      l1 == IF IsNum(debt)
            THEN (IF debt.v < 5 THEN 15 ELSE IF debt.v > 20 THEN -10 ELSE 0)
            ELSE 0
      c1 == IF IsNum(growth_eps) /\ growth_eps.v # 0 /\ growth_eps.v > 10 THEN 5 ELSE 0
      c2 == IF IsNum(beta) /\ beta.v # 0 /\ beta.v > 15 THEN -5 ELSE 0
  IN  [quant |-> 50 + q1 + q2, quality |-> 50 + l1, catalyst |-> 50 + c1 + c2]

\* clamp = lambda x: float(max(0, min(100, round(x))))
clamp(x) == Max(0, Min(100, x))

\* _scores_from(f): overall = round(0.4*quant + 0.4*quality + 0.2*catalyst, 2), in hundredths
_scores_from(f) ==
  LET r == RawScores(f)
      quant == clamp(r.quant)
      quality == clamp(r.quality)
      catalyst == clamp(r.catalyst)
  IN  [quant |-> quant, quality |-> quality, catalyst |-> catalyst,
       overall |-> 40 * quant + 40 * quality + 20 * catalyst]

_stance(overall) ==
  IF overall >= 7000 THEN "Buy" ELSE IF overall >= 5500 THEN "Hold" ELSE "Wait"

_risk_from_beta(beta) ==
  IF ~IsNum(beta) THEN "Unknown"
  ELSE IF beta.v < 8 THEN "Low"
  ELSE IF beta.v < 12 THEN "Medium"
  ELSE IF beta.v < 16 THEN "High"
  ELSE "Very High"

(* ---------------------- zones and sell signal ------------------------- *)

StyleParams(style) ==
  IF style = INVESTOR THEN [ma_len |-> 200, atr_len |-> 20, thresh |-> 5]
  ELSE [ma_len |-> 50, atr_len |-> 14, thresh |-> 3]

\* _compute_zones(df, price, style): bounds in ticks
_compute_zones(df, price, style) ==
  LET p == StyleParams(style)
      m == _sma(Close(df), p.ma_len)
      a == _atr(df, p.atr_len)
      ma == IF m.def THEN <<m.sum, m.cnt>> ELSE <<price, 1>>
      atr == IF a.def THEN <<a.sum, a.cnt>> ELSE <<Max(2 * price, 500), 100>>
      pr == <<price, 1>>
  IN  [buy_zone |-> <<Round4(RatSub(ma, atr)), Round4(ma)>>,
       sell_zone |-> <<Round4(RatAdd(pr, atr)), Round4(RatAdd(pr, <<2 * atr[1], atr[2]>>))>>,
       rationale |-> <<Upper(style), p.ma_len, p.atr_len>>]

\* _sell_signal with the stop at one threshold below the SMA instead of two
sell_signal_single_thresh(price, df, style) ==
  LET p == StyleParams(style)
      m == _sma(Close(df), p.ma_len)
  IN  IF ~m.def THEN [sell_signal |-> FALSE, sell_reason |-> Null, stop_loss |-> Null]
      ELSE IF price * m.cnt * 100 < m.sum * (100 - p.thresh)
      THEN [sell_signal |-> TRUE,
            sell_reason |-> [t |-> "text", ma_len |-> p.ma_len, pct |-> p.thresh],
            stop_loss |-> Num(RoundHalfEven(m.sum * (100 - p.thresh), m.cnt))]
      ELSE [sell_signal |-> FALSE, sell_reason |-> Null, stop_loss |-> Null]

\* _sell_signal(price, df, style): price < ma * (1 - thresh), stop = round(ma * (1 - 2*thresh), 4)
_sell_signal(price, df, style) ==
  LET p == StyleParams(style)
      m == _sma(Close(df), p.ma_len)
  IN  IF ~m.def THEN [sell_signal |-> FALSE, sell_reason |-> Null, stop_loss |-> Null]
      ELSE IF price * m.cnt * 100 < m.sum * (100 - p.thresh)
      THEN [sell_signal |-> TRUE,
            sell_reason |-> [t |-> "text", ma_len |-> p.ma_len, pct |-> p.thresh],
            stop_loss |-> Num(RoundHalfEven(m.sum * (100 - 2 * p.thresh), m.cnt))]
      ELSE [sell_signal |-> FALSE, sell_reason |-> Null, stop_loss |-> Null]

(* ----------------------------- cache file ---------------------------- *)

(* The file is absent, unreadable, not JSON ("garbage"), a JSON list, or a  *)
(* JSON object ("dict") mapping keys to entries.  An entry written by the   *)
(* program has shape "ok": {"ts": ..., "data": ...}.  The other shapes are  *)
(* entries of a damaged file: "no_ts" lacks "ts", "no_data" lacks "data",   *)
(* "bad_ts" has a "ts" that is no ISO date, "scalar" is not an object.      *)
NoEntries == <<>>

AbsentFile == [kind |-> "absent", entries |-> NoEntries]

DictFile(e) == [kind |-> "dict", entries |-> e]

Entry(ts, data) == [shape |-> "ok", ts |-> ts, data |-> data]

\* _load_cache(): the parsed JSON, or {} when the file is absent or cannot be
\* read or parsed
_load_cache(file) ==
  IF file.kind = "dict" THEN [isdict |-> TRUE, e |-> file.entries]
  ELSE IF file.kind = "list" THEN [isdict |-> FALSE, e |-> NoEntries]
  ELSE [isdict |-> TRUE, e |-> NoEntries]

\* _save_cache(data): how = "ok" writes the file; "fail_open" (open() raises)
\* leaves it as it is; "fail_write" (json.dump raises after open(.., "w")
\* truncated it) leaves a file that is not JSON.  No exception escapes.
_save_cache(file, data, how) ==
  IF how = "ok" THEN DictFile(data)
  ELSE IF how = "fail_open" THEN file
  ELSE [kind |-> "garbage", entries |-> NoEntries]

\* _is_fresh with the boundary slipped: an entry exactly ttl_hours old counts as fresh
is_fresh_inclusive(entry, ttl_hours, t) ==
  IF entry.shape = "bad_ts" THEN FALSE ELSE (t - entry.ts) <= ttl_hours

\* _is_fresh(ts_iso, ttl_hours) applied to entry["ts"]: a ts that does not parse
\* is not fresh
_is_fresh(entry, ttl_hours, t) ==
  IF entry.shape = "bad_ts" THEN FALSE ELSE (t - entry.ts) < ttl_hours

\* cache[key]["ts"] raises (KeyError / TypeError)
TsRaises(entry) == entry.shape \in {"no_ts", "scalar"}

\* cache[key]["data"] raises
DataRaises(entry) == entry.shape \in {"no_data", "scalar"}

analysis_key(ticker, style) == <<"analysis", ticker, style>>

\* f"fund:{ticker}:{datetime.utcnow().date().isoformat()}"
fund_key(ticker, t) == <<"fund", ticker, t \div HoursPerDay>>

(* ------------------------------ provider ------------------------------ *)

(* What yfinance answers during one request:                                *)
(*   hist3: tkr.history(period="3mo"): "raise", "empty", or "ok" with the   *)
(*          last Close (a number or NaN);                                   *)
(*   info:  tkr.info: [ok |-> FALSE] when it raises, else the bag;          *)
(*   hist:  tkr.history(period=timeframe): "raise", "empty" or a frame.     *)
NoCalls == [hist3 |-> FALSE, info_price |-> FALSE, hist |-> FALSE, fund |-> FALSE, meta |-> FALSE]

\* _fetch_daily_close_price falling back to a made-up price of 0.01 instead of None
fetch_daily_close_price_made_up(prov) ==
  IF prov.hist3.k = "ok" THEN _safe_float(prov.hist3.close, Num(1))
  ELSE IF ~prov.info.ok THEN Num(1)
  ELSE LET a == _safe_float(prov.info.bag["previousClose"], Null)
           b == _safe_float(prov.info.bag["currentPrice"], Num(1))
       IN  IF IsNum(a) /\ a.v # 0 THEN a ELSE b

\* _fetch_daily_close_price(tkr)
_fetch_daily_close_price(prov) ==
  IF prov.hist3.k = "ok" THEN _safe_float(prov.hist3.close, Null)
  ELSE IF ~prov.info.ok THEN Null
  ELSE LET a == _safe_float(prov.info.bag["previousClose"], Null)
           b == _safe_float(prov.info.bag["currentPrice"], Null)
       IN  IF IsNum(a) /\ a.v # 0 THEN a ELSE b

\* the provider calls _fetch_daily_close_price makes
PriceCalls(prov) == [NoCalls EXCEPT !.hist3 = TRUE, !.info_price = (prov.hist3.k # "ok")]

\* the prices the provider supplied during the request, in ticks
Offered(prov) ==
  (IF prov.hist3.k = "ok" /\ IsNum(prov.hist3.close) THEN {100 * prov.hist3.close.v} ELSE {})
  \cup (IF prov.info.ok
        THEN {100 * prov.info.bag[f].v : f \in {g \in {"previousClose", "currentPrice"} : IsNum(prov.info.bag[g])}}
        ELSE {})

\* pd.DataFrame({"close": [price] * 60, "high": [price] * 60, "low": [price] * 60})
FallbackFrame(price) ==
  [n1 |-> 0, b1 |-> [high |-> price, low |-> price, close |-> price],
   n2 |-> 60, b2 |-> [high |-> price, low |-> price, close |-> price]]

(* ------------------------- inputs of the runs ------------------------- *)

Str(s) == [t |-> "str", s |-> s]

MaxTime == 24

\* the clock is observed every half day
ClockStep == HoursPerDay \div 2

Ticker1 == <<"A", "B">>

Requests ==
  [ticker : {<<" ">>, <<"a", "b", " ">>},
   style : {<<>>, <<"I", "n", "v", "e", "s", "t", "o", "r">>},
   notes : {Null, Str(<<" ", "F", "r", "e", "e", "z", "e">>), Str(<<"w", "a", "i", "t">>)}]

Text(s) == [t |-> "text", s |-> s]

\* an info bag: the scoring fields, the two fallback prices and the metadata
Bag(pe, eps, de, beta, prev, cur) ==
  [f \in {InfoField[k] : k \in FundKeys} \cup {"previousClose", "currentPrice", "longName", "sector"} |->
    CASE f = "trailingPE" -> pe
      [] f = "earningsGrowth" -> eps
      [] f = "debtToEquity" -> de
      [] f = "beta" -> beta
      [] f = "previousClose" -> prev
      [] f = "currentPrice" -> cur
      [] f = "longName" -> Text("AB Corp")
      [] f = "sector" -> Text("Technology")
      [] OTHER -> Null]

Bar(h, l, c) == [high |-> h, low |-> l, close |-> c]

Frame(n1, b1, n2, b2) == [n1 |-> n1, b1 |-> b1, n2 |-> n2, b2 |-> b2]

InfoFail == [ok |-> FALSE]

Info(bag) == [ok |-> TRUE, bag |-> bag]

\* what the provider may answer to a request of the server runs
Provs ==
  [hist3 : {[k |-> "raise"], [k |-> "ok", close |-> NaNv], [k |-> "ok", close |-> Num(900)]},
   info : {InfoFail, Info(Bag(Num(10), Num(25), NaNv, Num(16), Num(0), Num(900)))},
   hist : {[k |-> "raise"], [k |-> "empty"],
           [k |-> "ok", df |-> Frame(100, Bar(1010, 990, 1000), 20, Bar(1020, 980, 1000))]}]

\* the prices (cents) and frames a server run can meet
ServerPrices == {v \div 100 : v \in UNION {Offered(p) : p \in Provs}}

ServerFrames ==
  {p.hist.df : p \in {q \in Provs : q.hist.k = "ok"}} \cup {FallbackFrame(c) : c \in ServerPrices}

\* lines 291-292
Tech(df, price, style) ==
  [zones |-> _compute_zones(df, price, style), sig |-> _sell_signal(price, df, style)]

\* Tech tabulated once for the server runs (an evaluation device: same values)
TechTable ==
  {<<x, Tech(x[1], x[2], x[3])>> : x \in ServerFrames \X ServerPrices \X {SWING, INVESTOR}}

TechRow(rows, df, price, style) ==
  IF rows # {} THEN (CHOOSE r \in rows : TRUE)[2] ELSE Tech(df, price, style)

TechOf(df, price, style) ==
  TechRow({r \in TechTable : r[1] = <<df, price, style>>}, df, price, style)

(* ------------------------------ /analyze ------------------------------ *)

Response(status, body) == [status |-> status, body |-> body]

\* a request is [ticker, style, notes]: ticker and style are text, notes is Null or Str(text)
\* line 248: (req.ticker or "").upper().strip()
NormTicker(rq) == Strip(Upper(rq.ticker))

\* line 249: (req.style or "swing").lower()
NormStyle(rq) == Lower(IF rq.style = <<>> THEN SWING ELSE rq.style)

\* line 257: req.notes and req.notes.lower().strip() == "freeze"
IsFreeze(rq) == rq.notes # Null /\ rq.notes.s # <<>> /\ Strip(Lower(rq.notes.s)) = FREEZE

\* `key in cache and _is_fresh(cache[key]["ts"], ttl)` then cache[key]["data"]:
\* "raise" (uncaught KeyError / TypeError), "hit" or "miss"
Probe(cache, key, ttl, t) ==
  IF key \notin DOMAIN cache.e THEN "miss"
  ELSE IF TsRaises(cache.e[key]) THEN "raise"
  ELSE IF ~_is_fresh(cache.e[key], ttl, t) THEN "miss"
  ELSE IF DataRaises(cache.e[key]) THEN "raise"
  ELSE "hit"

\* the freeze branch without its freshness test: freeze returns whatever is cached
FreezeBranch_ignoring_ttl(cache, key, rq, t) ==
  IF IsFreeze(rq) /\ key \in DOMAIN cache.e
  THEN (IF TsRaises(cache.e[key]) \/ DataRaises(cache.e[key]) THEN "raise" ELSE "hit")
  ELSE "pass"

\* lines 257-259: the freeze branch; "pass" falls through to line 261
FreezeBranch(cache, key, rq, t) ==
  IF IsFreeze(rq)
  THEN (IF Probe(cache, key, ANALYSIS_TTL_HOURS, t) = "miss" THEN "pass"
        ELSE Probe(cache, key, ANALYSIS_TTL_HOURS, t))
  ELSE "pass"

\* lines 248-262: [done, resp, hit, cache]; done = FALSE goes on to the pipeline;
\* cache is Null when line 253 was not reached
Lookup(file, t, rq) ==
  LET ticker == NormTicker(rq)
      key == analysis_key(ticker, NormStyle(rq))
      cache == _load_cache(file)
      fz == FreezeBranch(cache, key, rq, t)
      pr == IF fz = "pass" THEN Probe(cache, key, ANALYSIS_TTL_HOURS, t) ELSE fz
  IN  IF ticker = <<>>
      THEN [done |-> TRUE, resp |-> Response(400, Null), hit |-> FALSE, cache |-> Null]
      ELSE IF pr = "raise"
      THEN [done |-> TRUE, resp |-> Response(500, Null), hit |-> FALSE, cache |-> cache]
      ELSE IF pr = "hit"
      THEN [done |-> TRUE, resp |-> Response(200, cache.e[key].data), hit |-> TRUE, cache |-> cache]
      ELSE [done |-> FALSE, resp |-> Null, hit |-> FALSE, cache |-> cache]

\* lines 277-283 with a cached all-null snapshot taken for a miss and fetched again
Fundamentals_refetching_null(cache, ticker, t, prov) ==
  LET fk == fund_key(ticker, t)
      pr == Probe(cache, fk, FUND_TTL_HOURS, t)
      fetched == _fetch_fundamentals(prov.info)
  IN  IF pr = "raise" THEN [raise |-> TRUE, f |-> Null, cache |-> cache, fetched |-> FALSE]
      ELSE IF pr = "hit" /\ cache.e[fk].data # AllNull
      THEN [raise |-> FALSE, f |-> cache.e[fk].data, cache |-> cache, fetched |-> FALSE]
      ELSE IF ~cache.isdict
      THEN [raise |-> TRUE, f |-> Null, cache |-> cache, fetched |-> TRUE]
      ELSE [raise |-> FALSE, f |-> fetched, fetched |-> TRUE,
            cache |-> [cache EXCEPT !.e = (fk :> Entry(t, fetched)) @@ cache.e]]

\* lines 277-283: [raise, fundamentals, cache, fetched]
Fundamentals(cache, ticker, t, prov) ==
  LET fk == fund_key(ticker, t)
      pr == Probe(cache, fk, FUND_TTL_HOURS, t)
      fetched == _fetch_fundamentals(prov.info)
  IN  IF pr = "raise" THEN [raise |-> TRUE, f |-> Null, cache |-> cache, fetched |-> FALSE]
      ELSE IF pr = "hit"
      THEN [raise |-> FALSE, f |-> cache.e[fk].data, cache |-> cache, fetched |-> FALSE]
      ELSE IF ~cache.isdict
      THEN [raise |-> TRUE, f |-> Null, cache |-> cache, fetched |-> TRUE]
      ELSE [raise |-> FALSE, f |-> fetched, fetched |-> TRUE,
            cache |-> [cache EXCEPT !.e = (fk :> Entry(t, fetched)) @@ cache.e]]

\* lines 294-301: tkr.info is read again for longName and sector
Metadata(prov) ==
  IF prov.info.ok
  THEN [company_name |-> prov.info.bag["longName"], sector |-> prov.info.bag["sector"]]
  ELSE [company_name |-> Null, sector |-> Null]

\* lines 285-288
Scoring(f) ==
  LET sc == _scores_from(f)
  IN  [quant |-> sc.quant, quality |-> sc.quality, catalyst |-> sc.catalyst,
       overall |-> sc.overall, stance |-> _stance(sc.overall),
       risk |-> _risk_from_beta(f["Beta"])]

\* lines 319-346: sc is what lines 285-288 computed, te what lines 291-292 did
Result(ticker, style, price, f, meta, t, sc, te) ==
      [ticker |-> ticker, style |-> style,
       company_name |-> meta.company_name, sector |-> meta.sector,
       price |-> 100 * price,
       stance |-> sc.stance,
       quant_score |-> sc.quant, quality_score |-> sc.quality,
       catalyst_score |-> sc.catalyst, overall_score |-> sc.overall,
       fundamentals_json |-> f,
       buy_sell_zones |-> te.zones,
       sell_signal |-> te.sig.sell_signal, sell_reason |-> te.sig.sell_reason,
       stop_loss |-> te.sig.stop_loss,
       risk_level |-> sc.risk,
       last_updated |-> t]

\* lines 348-349 and the return of line 350: the result goes into the loaded
\* dict under the analysis key and is the response
Store(cache, key, t, calls, result) ==
  [resp |-> Response(200, result), calls |-> calls, saves |-> TRUE,
   cache |-> [cache EXCEPT !.e = (key :> Entry(t, result)) @@ cache.e]]

\* lines 264-348: [resp, cache, calls, saves]; saves = TRUE when line 349 is reached
Pipeline(cache, t, rq, prov) ==
  LET ticker == NormTicker(rq)
      style == NormStyle(rq)
      price == _fetch_daily_close_price(prov)
      c1 == PriceCalls(prov)
      c2 == [c1 EXCEPT !.hist = TRUE]
      df == IF prov.hist.k = "ok" THEN prov.hist.df ELSE FallbackFrame(price.v)
      fu == Fundamentals(cache, ticker, t, prov)
      c3 == [c2 EXCEPT !.fund = fu.fetched]
      c4 == [c3 EXCEPT !.meta = TRUE]
  IN  IF ~IsNum(price) THEN [resp |-> Response(404, Null), cache |-> cache, calls |-> c1, saves |-> FALSE]
      ELSE IF prov.hist.k = "raise"
      THEN [resp |-> Response(500, Null), cache |-> cache, calls |-> c2, saves |-> FALSE]
      ELSE IF fu.raise
      THEN [resp |-> Response(500, Null), cache |-> cache, calls |-> c3, saves |-> FALSE]
      ELSE Store(fu.cache, analysis_key(ticker, style), t, c4,
                 Result(ticker, style, price.v, fu.f, Metadata(prov), t,
                        Scoring(fu.f), TechOf(df, price.v, style)))

\* analyze(req) as one uninterrupted run: [resp, file, calls, hit, cache]; cache is
\* what line 253 loaded (Null when the request was rejected before it)
Outcome(file, how, lk, pl) ==
  IF lk.done
  THEN [resp |-> lk.resp, file |-> file, calls |-> NoCalls, hit |-> lk.hit, cache |-> lk.cache]
  ELSE [resp |-> pl.resp, calls |-> pl.calls, hit |-> FALSE, cache |-> lk.cache,
        file |-> IF pl.saves THEN _save_cache(file, pl.cache.e, how) ELSE file]

analyze(file, t, rq, prov, how) ==
  Outcome(file, how, Lookup(file, t, rq), Pipeline(Lookup(file, t, rq).cache, t, rq, prov))

(* --------------------------- the server, serial ----------------------- *)

NoLast ==
  [rq |-> Null, resp |-> Null, calls |-> NoCalls, hit |-> FALSE, loaded |-> FALSE,
   stale |-> FALSE, offered |-> {}, info_ok |-> FALSE]

Idle == [pc |-> "idle"]

NumThreads == 2

Threads == 1..NumThreads

InitRest ==
  /\ now = 0
  /\ last = NoLast
  /\ arg = Null
  /\ ret = Null
  /\ th = [i \in Threads |-> Idle]

Init ==
  /\ store = AbsentFile
  /\ InitRest

\* what `last` records of a request: the normalised request, the response, the
\* provider calls made, whether the analysis entry was found but not fresh, and
\* - when the provider was reached - the prices it supplied and whether
\* tkr.info answered
Served(rq, prov, resp, calls, hit, cache) ==
  [rq |-> [ticker |-> NormTicker(rq), style |-> NormStyle(rq), freeze |-> IsFreeze(rq)],
   resp |-> resp, calls |-> calls, hit |-> hit, loaded |-> cache # Null,
   stale |-> /\ cache # Null
             /\ ~hit
             /\ analysis_key(NormTicker(rq), NormStyle(rq)) \in DOMAIN cache.e,
   offered |-> IF calls.hist3 THEN Offered(prov) ELSE {},
   info_ok |-> calls.hist3 /\ prov.info.ok]

\* the request with the provider's answers prov and the disk behaving as `how`
Serve(rq, prov, o) ==
  /\ store' = o.file
  /\ last' = Served(rq, prov, o.resp, o.calls, o.hit, o.cache)
  /\ UNCHANGED <<now, arg, ret, th>>

AnalyzeWith(rq, prov, how) == Serve(rq, prov, analyze(store, now, rq, prov, how))

\* the provider answers only a request that reaches it (line 265)
AnyProv == CHOOSE prov \in Provs : TRUE

\* one /analyze request, served from start to end with a working disk
Analyze(rq) ==
  \E prov \in (IF Lookup(store, now, rq).done THEN {AnyProv} ELSE Provs) :
    AnalyzeWith(rq, prov, "ok")

\* time passes between requests
Tick ==
  /\ now + ClockStep <= MaxTime
  /\ now' = now + ClockStep
  /\ UNCHANGED <<store, last, arg, ret, th>>

Next ==
  \/ \E rq \in Requests : Analyze(rq)
  \/ Tick

Spec == Init /\ [][Next]_vars

(* ------------------------ claims on the serial server ----------------- *)

\* in Spec every step that leaves the clock alone is an /analyze request
Requested == now' = now

OtherStyle(style) == IF style = INVESTOR THEN SWING ELSE INVESTOR

\* C1: once the analysis entry of (ticker, style) is saved at time t, a request
\* for the same key less than 24 hours later returns exactly the stored payload
\* (with its original last_updated), asks the provider nothing and leaves the
\* cache file as it is; a request 24 hours later or more goes to the provider,
\* and when it returns a response it has run the whole pipeline and has
\* overwritten the entry with the new timestamp.
C1_CacheRoundTripAndExpiry ==
  [][Requested =>
      LET r == last'.rq
          key == analysis_key(r.ticker, r.style)
          e == store.entries[key]
      IN  (r.ticker # <<>> /\ key \in DOMAIN store.entries) =>
            /\ e.data.last_updated = e.ts
            /\ (now - e.ts < 24) =>
                 /\ last'.resp = Response(200, e.data)
                 /\ last'.resp.body.last_updated = e.ts
                 /\ last'.calls = NoCalls
                 /\ store' = store
            /\ (now - e.ts >= 24) =>
                 /\ last'.calls.hist3
                 /\ ~last'.hit
                 /\ (last'.resp.status = 200) =>
                      /\ last'.calls.hist /\ last'.calls.meta
                      /\ last'.resp.body.last_updated = now
                      /\ store'.entries[key] = Entry(now, last'.resp.body)
                      /\ store'.entries[key].ts > e.ts]_vars

\* C1 witness: an entry that had gone stale was recomputed and overwritten
C1_Witness ==
  /\ last.stale
  /\ last.resp.status = 200
  /\ store.entries[analysis_key(last.rq.ticker, last.rq.style)] = Entry(now, last.resp.body)

\* the two forms of a request for (ticker, style): with notes = 'freeze' and without
FreezeNotes == CHOOSE n \in {rq.notes : rq \in Requests} : IsFreeze([notes |-> n])

AsFreeze(tk, st) == [ticker |-> tk, style |-> st, notes |-> FreezeNotes]

AsPlain(tk, st) == [ticker |-> tk, style |-> st, notes |-> Null]

\* C2: in every cache state and at every time, the request with notes='freeze'
\* and the same request without it give the same response, the same provider
\* calls and the same cache file; a freeze request on a fresh entry returns the
\* cached payload with no provider call, and on a missing or stale entry it
\* goes to the provider instead of returning the old payload.
C2_FreezeChangesNothing ==
  \A tk \in {rq.ticker : rq \in Requests}, st \in {rq.style : rq \in Requests} :
    LET key == analysis_key(NormTicker(AsFreeze(tk, st)), NormStyle(AsFreeze(tk, st)))
        both == Lookup(store, now, AsFreeze(tk, st)).done /\ Lookup(store, now, AsPlain(tk, st)).done
    IN  \A prov \in (IF both THEN {AnyProv} ELSE Provs) :
          LET f == analyze(store, now, AsFreeze(tk, st), prov, "ok")
              n == analyze(store, now, AsPlain(tk, st), prov, "ok")
          IN  /\ f.resp = n.resp /\ f.calls = n.calls /\ f.file = n.file
              /\ (NormTicker(AsFreeze(tk, st)) # <<>>) =>
                   IF key \in DOMAIN store.entries /\ now - store.entries[key].ts < 24
                   THEN /\ f.resp = Response(200, store.entries[key].data)
                        /\ f.calls = NoCalls
                        /\ f.file = store
                   ELSE /\ f.calls.hist3
                        /\ ~f.hit

\* C2 witness: a freeze request was served from a fresh entry written earlier
C2_Witness ==
  /\ last.rq # Null
  /\ last.rq.freeze
  /\ last.hit
  /\ now > last.resp.body.last_updated

\* every price the provider can supply, in ticks
AllOffered == UNION {Offered(p) : p \in Provs}

\* C3: a request whose ticker is empty after trimming is rejected with 400
\* before the cache is read and before any provider call; a request that
\* reaches the provider and gets no price from it is rejected with 404; a
\* rejected request leaves the cache file as it is; a computed response carries
\* a price the provider supplied during the request, and a stored payload one
\* it supplied earlier.
C3_RejectionsLeaveNoTrace ==
  [][Requested =>
      /\ (last'.rq.ticker = <<>>) =>
           /\ last'.resp.status = 400
           /\ ~last'.loaded
           /\ last'.calls = NoCalls
      /\ (last'.rq.ticker # <<>>) => last'.resp.status # 400
      /\ (last'.calls.hist3 /\ last'.offered = {}) => last'.resp.status = 404
      /\ (last'.resp.status = 404) => (~last'.hit /\ last'.calls.hist3 /\ ~last'.calls.fund)
      /\ (last'.resp.status # 200) => store' = store
      /\ (last'.resp.status = 200 /\ ~last'.hit) => last'.resp.body.price \in last'.offered
      /\ (last'.resp.status = 200) => last'.resp.body.price \in AllOffered]_vars

\* C3 witness: a request on a stale entry got no price: 404, the cache keeps its entries
C3_Witness ==
  /\ last.resp # Null
  /\ last.resp.status = 404
  /\ last.offered = {}
  /\ last.stale
  /\ store.kind = "dict"

\* C5: once a request for a ticker with one style has completed and been saved
\* on day D, a request for the same ticker with the other style on day D takes
\* its fundamentals snapshot from the entry keyed (ticker, D), does not fetch
\* the fundamentals bag (tkr.info) from the provider anywhere in the request,
\* and returns the same snapshot as the first response.
C5_StylesShareOneFetch ==
  [][Requested =>
      LET r == last'.rq
          ko == analysis_key(r.ticker, OtherStyle(r.style))
          fk == fund_key(r.ticker, now)
      IN  (/\ r.ticker # <<>>
           /\ ko \in DOMAIN store.entries
           /\ store.entries[ko].ts \div HoursPerDay = now \div HoursPerDay
           /\ last'.resp.status = 200) =>
            /\ fk \in DOMAIN store.entries
            /\ last'.resp.body.fundamentals_json = store.entries[fk].data
            /\ last'.resp.body.fundamentals_json = store.entries[ko].data.fundamentals_json
            /\ ~last'.calls.fund
            /\ ~last'.calls.meta
            /\ ~last'.calls.info_price]_vars

PEValues == {Null, NaNv, Num(-3), Num(14), Num(15), Num(60), Num(61)}

GrowthValues == {Null, Num(-1), Num(0), Num(10), Num(11), Num(20), Num(21)}

DebtValues == {Null, Num(4), Num(5), Num(20), Num(21)}

BetaValues == {Null, Num(0), Num(7), Num(8), Num(15), Num(16), Num(200)}

ScoreArgs ==
  {InfoFail} \cup
  {Info(Bag(pe, g, d, b, Null, Null)) : pe \in PEValues, g \in GrowthValues, d \in DebtValues, b \in BetaValues}

ScoreInit ==
  /\ store = AbsentFile
  /\ now = 0
  /\ last = NoLast
  /\ ret = Null
  /\ th = [i \in Threads |-> Idle]
  /\ arg \in ScoreArgs

\* lines 282 and 286-288 on one provider answer
Score ==
  /\ ret = Null
  /\ ret' = [f |-> _fetch_fundamentals(arg), sc |-> Scoring(_fetch_fundamentals(arg))]
  /\ UNCHANGED <<store, now, last, arg, th>>

SpecScore == ScoreInit /\ [][Score]_vars

\* C9: for every fundamentals snapshot quant is in [30, 77], quality in
\* [40, 65], catalyst in [45, 55] and overall = 0.4*quant + 0.4*quality +
\* 0.2*catalyst is in [37.0, 67.8], below the Buy threshold of 70: the stance
\* is Hold or Wait, never Buy, and the clamp to [0, 100] changes no score.
C9_BuyIsUnreachable ==
  (ret # Null) =>
    /\ ret.sc.quant \in 30..77
    /\ ret.sc.quality \in 40..65
    /\ ret.sc.catalyst \in 45..55
    /\ ret.sc.overall = 40 * ret.sc.quant + 40 * ret.sc.quality + 20 * ret.sc.catalyst
    /\ ret.sc.overall \in 3700..6780
    /\ ret.sc.overall < 7000
    /\ ret.sc.stance \in {"Hold", "Wait"}
    /\ ret.sc.quant = RawScores(ret.f).quant
    /\ ret.sc.quality = RawScores(ret.f).quality
    /\ ret.sc.catalyst = RawScores(ret.f).catalyst

\* C9 witness: the best snapshot reaches the upper bound 67.8 and is rated Hold
C9_Witness ==
  /\ ret # Null
  /\ ret.sc.quant = 77 /\ ret.sc.quality = 65 /\ ret.sc.catalyst = 55
  /\ ret.sc.overall = 6780
  /\ ret.sc.stance = "Hold"

(* ------------------- the zone calculator on its own -------------------- *)

TechBars == {Bar(1000, 1000, 1000), Bar(1010, 990, 1000), Bar(300, 100, 100), Bar(1200, 1100, 1150)}

TechFrames ==
  {Frame(n1, b1, n2, b2) : n1 \in {0, 80}, n2 \in {1, 24, 25, 60, 120}, b1 \in TechBars, b2 \in TechBars}

TechPrices == {3, 100, 900, 969, 970, 1000, 1200}

TechArgs == [df : TechFrames, price : TechPrices, style : {SWING, INVESTOR}]

TechInit ==
  /\ store = AbsentFile
  /\ now = 0
  /\ last = NoLast
  /\ ret = Null
  /\ th = [i \in Threads |-> Idle]
  /\ arg \in TechArgs

\* line 291
Zones ==
  /\ ret = Null
  /\ ret' = [kind |-> "zones", z |-> _compute_zones(arg.df, arg.price, arg.style)]
  /\ UNCHANGED <<store, now, last, arg, th>>

\* line 292
Signal ==
  /\ ret = Null
  /\ ret' = [kind |-> "signal", s |-> _sell_signal(arg.price, arg.df, arg.style)]
  /\ UNCHANGED <<store, now, last, arg, th>>

TechNext == Zones \/ Signal

SpecTech == TechInit /\ [][TechNext]_vars

\* the rule of the claim, from the frame: SMA window and threshold (percent)
RuleWindow(style) == IF style = INVESTOR THEN 200 ELSE 50

RulePercent(style) == IF style = INVESTOR THEN 5 ELSE 3

\* C6: with SMA window 50 / threshold 3% for swing and 200 / 5% for investor,
\* the signal is triggered exactly when an SMA value is defined for the last
\* bar and price < SMA*(1 - threshold); then the reason is non-null and
\* stop_loss = round(SMA*(1 - 2*threshold), 4); otherwise reason and stop_loss
\* are null.  So sell_signal is true exactly when both are non-null.
C6_SellSignalRule ==
  (ret # Null /\ ret.kind = "signal") =>
    LET m == _sma(Close(arg.df), RuleWindow(arg.style))
        pct == RulePercent(arg.style)
        below == m.def /\ 100 * arg.price * m.cnt < m.sum * (100 - pct)
    IN  /\ ret.s.sell_signal = below
        /\ below =>
             /\ ret.s.sell_reason # Null
             /\ ret.s.sell_reason.ma_len = RuleWindow(arg.style)
             /\ ret.s.sell_reason.pct = pct
             /\ ret.s.stop_loss = Num(RoundHalfEven(m.sum * (100 - 2 * pct), m.cnt))
        /\ ~below => (ret.s.sell_reason = Null /\ ret.s.stop_loss = Null)
        /\ ret.s.sell_signal = (ret.s.sell_reason # Null /\ ret.s.stop_loss # Null)

\* C6 witness: swing, price 9.00 under an SMA50 of 10.00: triggered, stop_loss 9.4
C6_Witness ==
  /\ ret # Null /\ ret.kind = "signal"
  /\ arg.style = SWING /\ arg.price = 900
  /\ _sma(Close(arg.df), 50) = [def |-> TRUE, sum |-> 50000, cnt |-> 50]
  /\ ret.s.sell_signal
  /\ ret.s.stop_loss = Num(94000)

\* C7: for positive highs, lows, closes and a positive price, all four zone
\* bounds are strictly positive.
C7_ZoneBoundsPositive ==
  (/\ ret # Null /\ ret.kind = "zones"
   /\ arg.price > 0
   /\ \A b \in {arg.df.b1, arg.df.b2} : b.high > 0 /\ b.low > 0 /\ b.close > 0) =>
    /\ ret.z.buy_zone[1] > 0 /\ ret.z.buy_zone[2] > 0
    /\ ret.z.sell_zone[1] > 0 /\ ret.z.sell_zone[2] > 0

(* -------------------- the server on a damaged cache -------------------- *)

BadEntries ==
  {[shape |-> sh, ts |-> 0, data |-> Null] : sh \in {"no_ts", "no_data", "bad_ts", "scalar"}}

\* a JSON object holding e under key k, or nothing when e = Null
Holding(k, e) == IF e = Null THEN NoEntries ELSE (k :> e)

\* the states of the cache file the server can find at start: absent,
\* unreadable, not JSON, a JSON list, or an object with damaged entries
FaultFiles ==
  {[kind |-> k, entries |-> NoEntries] : k \in {"absent", "unreadable", "garbage", "list"}}
  \cup {DictFile(Holding(analysis_key(Ticker1, SWING), a) @@ Holding(fund_key(Ticker1, 0), f)) :
          a \in BadEntries \cup {Null}, f \in BadEntries \cup {Null}}

SaveOutcomes == {"ok", "fail_open", "fail_write"}

FaultRequests == {rq \in Requests : NormTicker(rq) # <<>>}

FaultProvs == {p \in Provs : p.hist3.k = "ok" /\ p.hist.k # "raise"}

FaultInit ==
  /\ store \in FaultFiles
  /\ InitRest

\* one /analyze request on a disk that may fail
AnalyzeFaulty(rq, prov, how) == AnalyzeWith(rq, prov, how)

FaultNext ==
  \E rq \in FaultRequests, prov \in FaultProvs, how \in SaveOutcomes : AnalyzeFaulty(rq, prov, how)

SpecFault == FaultInit /\ [][FaultNext]_vars

\* the cache file with everything unusable removed: the empty cache for a file
\* that is no JSON object, else the object without its damaged entries
Sanitized(file) ==
  IF file.kind # "dict" THEN AbsentFile
  ELSE DictFile([k \in {x \in DOMAIN file.entries : file.entries[x].shape = "ok"} |-> file.entries[k]])

\* C4: whatever the state of the cache file (absent, unreadable, not JSON, or
\* JSON with malformed entries), a request gets the response it would get with
\* the unusable parts of the cache absent, and gets it whether or not the save
\* succeeds.
C4_CacheFailuresNeverFatal ==
  [][\A rq \in FaultRequests, prov \in FaultProvs, how \in SaveOutcomes :
       AnalyzeFaulty(rq, prov, how) =>
         last'.resp = analyze(Sanitized(store), now, rq, prov, "ok").resp]_vars

(* ----------------------- the server, concurrently ---------------------- *)

ConcRequests == {rq \in Requests : NormTicker(rq) # <<>> /\ rq.notes = Null}

ConcProvs == {p \in Provs : p.hist3.k = "ok" /\ p.hist.k = "empty"}

\* lines 248-262 of a request taken by worker i: the file is read here
Start(i, rq) ==
  LET lk == Lookup(store, now, rq)
  IN  /\ th[i].pc = "idle"
      /\ IF lk.done
         THEN /\ last' = Served(rq, AnyProv, lk.resp, NoCalls, lk.hit, lk.cache)
              /\ th' = th
         ELSE /\ th' = [th EXCEPT ![i] = [pc |-> "fetch", rq |-> rq, cache |-> lk.cache]]
              /\ last' = last
      /\ UNCHANGED <<store, now, arg, ret>>

\* lines 264-348: the provider calls and the update of the worker's own copy
Compute(i, prov) ==
  LET pl == Pipeline(th[i].cache, now, th[i].rq, prov)
      sv == Served(th[i].rq, prov, pl.resp, pl.calls, FALSE, th[i].cache)
  IN  /\ th[i].pc = "fetch"
      /\ IF pl.saves
         THEN /\ th' = [th EXCEPT ![i] = [pc |-> "save", cache |-> pl.cache, served |-> sv]]
              /\ last' = last
         ELSE /\ th' = [th EXCEPT ![i] = Idle]
              /\ last' = sv
      /\ UNCHANGED <<store, now, arg, ret>>

\* lines 349-350: the worker's whole copy replaces the file
Save(i) ==
  /\ th[i].pc = "save"
  /\ store' = _save_cache(store, th[i].cache.e, "ok")
  /\ last' = th[i].served
  /\ th' = [th EXCEPT ![i] = Idle]
  /\ UNCHANGED <<now, arg, ret>>

ConcNext ==
  \/ \E i \in Threads, rq \in ConcRequests : Start(i, rq)
  \/ \E i \in Threads, prov \in ConcProvs : Compute(i, prov)
  \/ \E i \in Threads : Save(i)

SpecConc == Init /\ [][ConcNext]_vars

\* C8: a key saved to the cache file is still in the file after any later
\* step of any request, under every interleaving of concurrent requests.
C8_EntriesNeverRemoved ==
  [][\A k \in DOMAIN store.entries : k \in DOMAIN store'.entries]_vars

====
